---------------------------- MODULE Spec2Model ----------------------------
(***************************************************************************)
(* CommunityDetection.py of graphalytics-platforms-graphlab: the command   *)
(* line front end (argument parsing, mode check), the graph loading task   *)
(* and community_detection_model (degree pass, label initialisation and    *)
(* max_iterations rounds of label propagation through SGraph.triple_apply).*)
(*                                                                         *)
(* Floats are fixed-point numbers in tenths: 1.0 is One, 0.1 is 1.         *)
(* sys.argv[i] is argv[i]; sys.argv[0] (the script) is not in argv, so     *)
(* len(sys.argv) is Len(argv) + 1.                                         *)
(*                                                                         *)
(* SGraph.triple_apply visits every edge exactly once, in any order and in *)
(* parallel, holding the locks of both endpoints while the update function *)
(* runs on the CURRENT vertex data and its result is written back.  One    *)
(* step of a pass is therefore one edge, picked from those still pending.  *)
(***************************************************************************)
EXTENDS Integers, Sequences, FiniteSets, TLC

\* ------------------------------------------------------------------ bounds
\* A graph file holds 1..MaxFileEdges records.
MaxFileEdges == 3

\* The vertex keys found in a graph file: enough for a graph of two
\* components one of which has a vertex of degree two.
VertexKeys == {1, 2, 3, 4}

\* ------------------------------------------------------- fixed-point floats
\* The float 1.0 (score reset, line 102), in tenths.
One == 10

VARIABLES
    argv,             \* sys.argv[1..]
    pc,               \* position of the script / its outcome
    use_hadoop, directed, edge_based,
    node_preference, hop_attenuation, max_iterations,
    submitted,        \* gl.deploy.job.create was called
    graph_data,       \* the records read from the graph file (line 64)
    graph,            \* the SGraph's edge list: a sequence of <<src, dst>>
    edges, label, score, weighted_score,   \* vertex columns (<<>>: no column)
    pending,          \* edges (indexes of graph) the running pass has not visited
    iteration,
    cd_graph          \* task.outputs['cd_graph']: <<>> until assigned

config == <<use_hadoop, directed, edge_based, node_preference, hop_attenuation, max_iterations>>
columns == <<edges, label, score, weighted_score>>
vars == <<argv, pc, config, submitted, graph_data, graph, columns, pending, iteration, cd_graph>>

\* ----------------------------------------------------------- conversions
\* The argument strings float() accepts; any other raises ValueError.
FloatLiterals == {"0", "1", "2", "0.1", "-1"}

\* float(s), in tenths.
ParseFloat(s) ==
    CASE s = "0"   -> 0
      [] s = "1"   -> 10
      [] s = "2"   -> 20
      [] s = "0.1" -> 1
      [] s = "-1"  -> -10

\* The argument strings int() accepts: a decimal point or a word raises ValueError.
IntLiterals == {"0", "1", "2", "-1"}

\* int(s).
ParseInt(s) ==
    CASE s = "0"   -> 0
      [] s = "1"   -> 1
      [] s = "2"   -> 2
      [] s = "-1"  -> -1

\* ------------------------------------------------------------------ inputs
BoolArgs == {"true", "false"}
\* <edge_based>: "1" is a value that is not "true" and that float() accepts.
EdgeBasedArgs == {"true", "false", "1"}
NodePreferenceArgs == {"0", "1"}
HopAttenuationArgs == {"0", "0.1"}
MaxIterationsArgs == {"-1", "0", "1", "2"}

LocalArgv ==
    { <<"false", "g.csv", d, eb, np, ha, mi>> :
        d \in BoolArgs, eb \in EdgeBasedArgs, np \in NodePreferenceArgs,
        ha \in HopAttenuationArgs, mi \in MaxIterationsArgs }

HadoopArgv ==
    { <<"true", "4", "1024", "g.csv", d, eb, np, ha, mi>> :
        d \in BoolArgs, eb \in EdgeBasedArgs, np \in NodePreferenceArgs,
        ha \in HopAttenuationArgs, mi \in MaxIterationsArgs }

\* Complete command lines, and the same with the last argument missing.
Argvs ==
    LocalArgv \cup HadoopArgv
      \cup { SubSeq(a, 1, Len(a) - 1) : a \in LocalArgv \cup HadoopArgv }

\* Records of a graph file: pairs of distinct vertex keys (no record joins a
\* vertex to itself).
Pairs == { <<u, v>> : u \in VertexKeys, v \in VertexKeys } \ { <<u, u>> : u \in VertexKeys }

PairLess(p, q) == p[1] < q[1] \/ (p[1] = q[1] /\ p[2] < q[2])

\* Graph files: distinct records, listed in increasing order (no record is
\* repeated; a graph may still hold both (u,v) and (v,u)).
Files ==
    { f \in UNION { [1..n -> Pairs] : n \in 1..MaxFileEdges } :
        \A i \in 1..Len(f), j \in 1..Len(f) : i < j => PairLess(f[i], f[j]) }

NoColumn == <<>>

Init ==
    /\ argv \in Argvs
    /\ pc = "start"
    /\ use_hadoop = FALSE /\ directed = FALSE /\ edge_based = FALSE
    /\ node_preference = 0 /\ hop_attenuation = 0 /\ max_iterations = 0
    /\ submitted = FALSE
    /\ graph_data = <<>>
    /\ graph = <<>>
    /\ edges = NoColumn /\ label = NoColumn /\ score = NoColumn /\ weighted_score = NoColumn
    /\ pending = {}
    /\ iteration = 0
    /\ cd_graph = <<>>

\* ------------------------------------------------------------ the script
\* The module-level variables before any assignment.
Unassigned ==
    [pc |-> "start", use_hadoop |-> FALSE, directed |-> FALSE, edge_based |-> FALSE,
     node_preference |-> 0, hop_attenuation |-> 0, max_iterations |-> 0]

\* The three conversions followed by a check that max_iterations is positive,
\* which the script does not make.
ReadNumbersValidated(r, np, ha, mi) ==
    IF np \notin FloatLiterals \/ ha \notin FloatLiterals \/ mi \notin IntLiterals
    THEN [r EXCEPT !.pc = "ValueError"]
    ELSE IF ParseInt(mi) <= 0
    THEN [r EXCEPT !.pc = "ValueError", !.node_preference = ParseFloat(np),
                   !.hop_attenuation = ParseFloat(ha), !.max_iterations = ParseInt(mi)]
    ELSE [r EXCEPT !.pc = "numbers", !.node_preference = ParseFloat(np),
                   !.hop_attenuation = ParseFloat(ha), !.max_iterations = ParseInt(mi)]

\* node_preference = float(..); hop_attenuation = float(..); max_iterations = int(..)
\* (lines 42-44 and 52-54) on the strings np, ha, mi, starting from r: the
\* first string that does not convert raises ValueError and ends the script.
ReadNumbers(r, np, ha, mi) ==
    IF np \notin FloatLiterals THEN [r EXCEPT !.pc = "ValueError"]
    ELSE IF ha \notin FloatLiterals
    THEN [r EXCEPT !.pc = "ValueError", !.node_preference = ParseFloat(np)]
    ELSE IF mi \notin IntLiterals
    THEN [r EXCEPT !.pc = "ValueError", !.node_preference = ParseFloat(np),
                   !.hop_attenuation = ParseFloat(ha)]
    ELSE [r EXCEPT !.pc = "numbers", !.node_preference = ParseFloat(np),
                   !.hop_attenuation = ParseFloat(ha), !.max_iterations = ParseInt(mi)]

\* if not edge_based: exit(2)   (lines 56-58)
ModeCheck(r) ==
    IF ~r.edge_based THEN [r EXCEPT !.pc = "exit_unsupported"] ELSE [r EXCEPT !.pc = "parsed"]

\* Lines 25-58 on the command line a with HADOOP_HOME = home.
ReadArguments(a, home) ==
    IF Len(a) + 1 < 8 THEN [Unassigned EXCEPT !.pc = "exit_usage"]
    ELSE IF a[1] = "true"
    THEN IF Len(a) + 1 < 10
         THEN [Unassigned EXCEPT !.pc = "exit_usage", !.use_hadoop = TRUE]
         ELSE LET r0 == [Unassigned EXCEPT !.use_hadoop = TRUE,
                                           !.directed = (a[5] = "true"),
                                           !.edge_based = (a[6] = "true")]
                  r1 == ReadNumbers(r0, a[6], a[7], a[8])
              IN  IF r1.pc # "numbers" THEN r1
                  \* hadoop_home + '/etc/hadoop' with hadoop_home None
                  ELSE IF home = "" THEN [r1 EXCEPT !.pc = "TypeError"]
                  ELSE ModeCheck(r1)
    ELSE LET r0 == [Unassigned EXCEPT !.directed = (a[3] = "true"),
                                      !.edge_based = (a[4] = "true")]
             r1 == ReadNumbers(r0, a[5], a[6], a[7])
         IN  IF r1.pc # "numbers" THEN r1 ELSE ModeCheck(r1)

\* The exit status of the process at each outcome (an uncaught exception
\* ends the interpreter with status 1).
ExitStatus(p) ==
    CASE p = "exit_usage"       -> 1
      [] p = "exit_unsupported" -> 2
      [] p = "ValueError"       -> 1
      [] p = "TypeError"        -> 1
      [] p = "done"             -> 0

Exited == {"exit_usage", "exit_unsupported", "ValueError", "TypeError", "done"}

\* os.environ.get('HADOOP_HOME') (line 46): "" stands for None (not set).
HadoopHomes == {"", "/opt/hadoop"}

ParseArgs ==
    /\ pc = "start"
    /\ \E home \in HadoopHomes :
       LET r == ReadArguments(argv, home)
       IN  /\ pc' = r.pc
           /\ use_hadoop' = r.use_hadoop
           /\ directed' = r.directed
           /\ edge_based' = r.edge_based
           /\ node_preference' = r.node_preference
           /\ hop_attenuation' = r.hop_attenuation
           /\ max_iterations' = r.max_iterations
    /\ UNCHANGED <<argv, submitted, graph_data, graph, columns, pending, iteration, cd_graph>>

\* ------------------------------------------------------- load_graph_task
\* SGraph.add_edges(data, src_field, dst_field): a NEW graph, the edges of g
\* followed by one edge per record of data; g itself is not changed.  With
\* swap the source is read from the second column (src_field = 'X2').
add_edges(g, data, swap) ==
    g \o [i \in 1..Len(data) |-> IF swap THEN <<data[i][2], data[i][1]>> ELSE data[i]]

\* The graph load_graph_task stores in task.outputs['graph'] (lines 65-70).
\* For an undirected graph line 68 calls graph.add_edges(.., 'X2', 'X1') and
\* drops the graph it returns, so 'graph' still names the graph of line 65.
BuildGraph(data, d) ==
    LET graph0  == add_edges(<<>>, data, FALSE)
        dropped == IF ~d THEN add_edges(graph0, data, TRUE) ELSE graph0
    IN  graph0

\* The vertex table of an SGraph built from edges: their endpoints.
Vertices(g) == { g[i][1] : i \in DOMAIN g } \cup { g[i][2] : i \in DOMAIN g }

\* load_graph_task, run by the script itself (line 139) or as the first task
\* of the submitted job (line 124); the file's content is an input.
LoadGraph ==
    /\ pc = "parsed"
    /\ \E f \in Files :
         /\ graph_data' = f
         /\ graph' = BuildGraph(f, directed)
    /\ submitted' = use_hadoop
    /\ pc' = "loaded"
    /\ UNCHANGED <<argv, config, columns, pending, iteration, cd_graph>>

\* ---------------------------------------------- community_detection_model
\* count_edges with the increment of the destination left out.
count_edges_source_only(src, dst) ==
    <<[src EXCEPT !.edges = @ + 1], dst>>

\* count_edges(src, edge, dst) on the vertex records (lines 74-77).
count_edges(src, dst) ==
    <<[src EXCEPT !.edges = @ + 1], [dst EXCEPT !.edges = @ + 1]>>

\* graph.vertices['edges'] = 0 and the start of triple_apply(count_edges).
BeginDegreePass ==
    /\ pc = "loaded"
    /\ edges' = [v \in Vertices(graph) |-> 0]
    /\ pending' = DOMAIN graph
    /\ pc' = "count"
    /\ UNCHANGED <<argv, config, submitted, graph_data, graph, label, score,
                   weighted_score, iteration, cd_graph>>

\* triple_apply(count_edges, ['edges'], ['edges']) on one pending edge: both
\* endpoints locked, their current 'edges' read, the result written back
\* (source, then target).
CountEdgesStep ==
    /\ pc = "count"
    /\ \E i \in pending :
         LET s == graph[i][1]
             d == graph[i][2]
             r == count_edges([edges |-> edges[s]], [edges |-> edges[d]])
         IN  /\ edges' = [edges EXCEPT ![s] = r[1].edges, ![d] = r[2].edges]
             /\ pending' = pending \ {i}
    /\ UNCHANGED <<argv, pc, config, submitted, graph_data, graph, label, score,
                   weighted_score, iteration, cd_graph>>

\* graph.vertices['__id'].apply(lambda x: x)   (line 97)
InitialLabel(id) == id

\* triple_apply(count_edges) returns; labels are initialised; iteration = 0.
EndDegreePass ==
    /\ pc = "count"
    /\ pending = {}
    /\ label' = [v \in Vertices(graph) |-> InitialLabel(v)]
    /\ iteration' = 0
    /\ pc' = "loop"
    /\ UNCHANGED <<argv, config, submitted, graph_data, graph, edges, score,
                   weighted_score, pending, cd_graph>>

\* The loop test with <= for <.
LoopConditionInclusive(it, max) == it <= max

\* while iteration < max_iterations   (line 100)
LoopCondition(it, max) == it < max

RECURSIVE Pow(_, _)
\* b ** n for an integer b and a whole exponent n >= 0 (0 ** 0 is 1).
Pow(b, n) == IF n <= 0 THEN 1 ELSE b * Pow(b, n - 1)

\* x['score'] * (x['edges'] ** node_preference)   (line 103), for a
\* node_preference that is a whole number of units, as NodePreferenceArgs are.
WeightedScore(sc, e, np) == sc * Pow(e, np \div One)

\* The vertex columns at the start of a round whose labels are lab
\* (lines 102-103).
StartOfRound(lab) ==
    [label |-> lab,
     score |-> [v \in Vertices(graph) |-> One],
     weighted_score |-> [v \in Vertices(graph) |-> WeightedScore(One, edges[v], node_preference)],
     edges |-> edges]

BeginRound ==
    /\ pc = "loop"
    /\ LoopCondition(iteration, max_iterations)
    /\ score' = StartOfRound(label).score
    /\ weighted_score' = StartOfRound(label).weighted_score
    /\ pending' = DOMAIN graph
    /\ pc' = "propagate"
    /\ UNCHANGED <<argv, config, submitted, graph_data, graph, edges, label,
                   iteration, cd_graph>>

\* community_detection_propagate with <= for < in both tests.
propagate_non_strict(src, dst) ==
    LET dst1 == IF dst.score <= src.weighted_score
                THEN [dst EXCEPT !.label = src.label,
                                 !.score = src.weighted_score - hop_attenuation]
                ELSE dst
        src1 == IF src.score <= dst1.weighted_score
                THEN [src EXCEPT !.label = dst1.label,
                                 !.score = dst1.weighted_score - hop_attenuation]
                ELSE src
    IN  <<src1, dst1>>

\* community_detection_propagate with the attenuation added, not subtracted.
propagate_added_attenuation(src, dst) ==
    LET dst1 == IF dst.score < src.weighted_score
                THEN [dst EXCEPT !.label = src.label,
                                 !.score = src.weighted_score + hop_attenuation]
                ELSE dst
        src1 == IF src.score < dst1.weighted_score
                THEN [src EXCEPT !.label = dst1.label,
                                 !.score = dst1.weighted_score + hop_attenuation]
                ELSE src
    IN  <<src1, dst1>>

\* community_detection_propagate copying the 'edges' column for the label.
propagate_wrong_column(src, dst) ==
    LET dst1 == IF dst.score < src.weighted_score
                THEN [dst EXCEPT !.label = src.edges,
                                 !.score = src.weighted_score - hop_attenuation]
                ELSE dst
        src1 == IF src.score < dst1.weighted_score
                THEN [src EXCEPT !.label = dst1.edges,
                                 !.score = dst1.weighted_score - hop_attenuation]
                ELSE src
    IN  <<src1, dst1>>

\* community_detection_propagate(src, edge, dst) on the vertex records
\* (lines 79-88): the second test reads dst after the first assignment.
community_detection_propagate(src, dst) ==
    LET dst1 == IF dst.score < src.weighted_score
                THEN [dst EXCEPT !.label = src.label,
                                 !.score = src.weighted_score - hop_attenuation]
                ELSE dst
        src1 == IF src.score < dst1.weighted_score
                THEN [src EXCEPT !.label = dst1.label,
                                 !.score = dst1.weighted_score - hop_attenuation]
                ELSE src
    IN  <<src1, dst1>>

\* The record triple_apply hands to the update function for vertex v.
VertexRecord(c, v) ==
    [label |-> c.label[v], score |-> c.score[v],
     weighted_score |-> c.weighted_score[v], edges |-> c.edges[v]]

\* triple_apply(community_detection_propagate, ['label', 'score',
\* 'weighted_score', 'edges']) on the edge e, from the columns c: the
\* columns after the mutated fields of both endpoints are written back.
PropagateOn(c, e) ==
    LET s == e[1]
        d == e[2]
        r == community_detection_propagate(VertexRecord(c, s), VertexRecord(c, d))
    IN  [label |-> [c.label EXCEPT ![s] = r[1].label, ![d] = r[2].label],
         score |-> [c.score EXCEPT ![s] = r[1].score, ![d] = r[2].score],
         weighted_score |-> [c.weighted_score EXCEPT ![s] = r[1].weighted_score,
                                                     ![d] = r[2].weighted_score],
         edges |-> [c.edges EXCEPT ![s] = r[1].edges, ![d] = r[2].edges]]

Columns ==
    [label |-> label, score |-> score, weighted_score |-> weighted_score, edges |-> edges]

PropagateStep ==
    /\ pc = "propagate"
    /\ \E i \in pending :
         LET c == PropagateOn(Columns, graph[i])
         IN  /\ label' = c.label
             /\ score' = c.score
             /\ weighted_score' = c.weighted_score
             /\ edges' = c.edges
             /\ pending' = pending \ {i}
    /\ UNCHANGED <<argv, pc, config, submitted, graph_data, graph, iteration, cd_graph>>

\* triple_apply returns; iteration += 1   (lines 104-105)
EndRound ==
    /\ pc = "propagate"
    /\ pending = {}
    /\ iteration' = iteration + 1
    /\ pc' = "loop"
    /\ UNCHANGED <<argv, config, submitted, graph_data, graph, columns, pending, cd_graph>>

\* task.outputs['cd_graph'] = graph   (line 107); the script ends.
Finish ==
    /\ pc = "loop"
    /\ ~LoopCondition(iteration, max_iterations)
    /\ cd_graph' = <<[edge_list |-> graph, label |-> label]>>
    /\ pc' = "done"
    /\ UNCHANGED <<argv, config, submitted, graph_data, graph, columns, pending, iteration>>

Next ==
    \/ ParseArgs
    \/ LoadGraph
    \/ BeginDegreePass
    \/ CountEdgesStep
    \/ EndDegreePass
    \/ BeginRound
    \/ PropagateStep
    \/ EndRound
    \/ Finish

Spec == Init /\ [][Next]_vars

\* ================================================================ claims
\* States in which community_detection_model is past the degree pass.
AfterDegreePass == pc \in {"loop", "propagate", "done"}

\* The number of edges among those with indexes in I that have v as source,
\* plus the number that have v as destination.
IncidentCount(I, v) ==
    Cardinality({ i \in I : graph[i][1] = v }) + Cardinality({ i \in I : graph[i][2] = v })

\* The records of the input {(1,2),(2,3)}.
ExampleFile == << <<1, 2>>, <<2, 3>> >>

\* C1 - Degree correctness: during the degree pass edges[v] counts the
\* visited edges incident to v, whatever the order of the visits, so after
\* the pass edges[v] is the number of directed edges with v as source plus
\* the number with v as destination; the input {(1,2),(2,3)} loaded as an
\* undirected graph gives edges[1] = 2, edges[2] = 4, edges[3] = 2.
C1_DegreeCorrectness ==
    /\ pc = "count" =>
         \A v \in Vertices(graph) : edges[v] = IncidentCount(DOMAIN graph \ pending, v)
    /\ AfterDegreePass =>
         \A v \in Vertices(graph) : edges[v] = IncidentCount(DOMAIN graph, v)
    /\ (AfterDegreePass /\ graph_data = ExampleFile /\ ~directed) => edges = <<2, 4, 2>>

\* The columns after one propagation pass that visits the edges k, k+1, ...
\* of the graph in the order of the edge list, from the columns c.
RECURSIVE PassInListOrder(_, _)
PassInListOrder(c, k) ==
    IF k > Len(graph) THEN c ELSE PassInListOrder(PropagateOn(c, graph[k]), k + 1)

\* The labels after the rounds it, it+1, ... each visiting the edges in the
\* order of the edge list, from the labels lab.
RECURSIVE RoundsInListOrder(_, _)
RoundsInListOrder(lab, it) ==
    IF ~LoopCondition(it, max_iterations) THEN lab
    ELSE RoundsInListOrder(PassInListOrder(StartOfRound(lab), 1).label, it + 1)

\* C2 - Pass isolation / determinism under reordering: the final label of
\* every vertex is the same for every order in which the edges of each pass
\* are visited, so every run ends with the labels of the run that visits the
\* edges in the order of the edge list.
C2_OrderIndependentLabels ==
    pc = "done" =>
        label = RoundsInListOrder([v \in Vertices(graph) |-> InitialLabel(v)], 0)

\* The edge the step from the current state to the next one has visited.
Visited == pending \ pending'

\* A step of the propagation pass.
PropagateVisit == pc = "propagate" /\ pc' = "propagate" /\ pending' # pending

\* C9 - Independent two-direction update: a visit of the edge (src, dst)
\* gives dst the label of src and the score src.weighted_score -
\* hop_attenuation iff dst.score < src.weighted_score, and gives src the
\* label dst had BEFORE the visit and the score dst.weighted_score -
\* hop_attenuation iff src.score < dst.weighted_score; otherwise the
\* endpoint keeps its label and score.
C9_IndependentUpdate ==
    [][PropagateVisit =>
        \A i \in Visited :
            LET s == graph[i][1]
                d == graph[i][2]
            IN  /\ label'[d] = IF score[d] < weighted_score[s] THEN label[s] ELSE label[d]
                /\ score'[d] = IF score[d] < weighted_score[s]
                               THEN weighted_score[s] - hop_attenuation ELSE score[d]
                /\ label'[s] = IF score[s] < weighted_score[d] THEN label[d] ELSE label[s]
                /\ score'[s] = IF score[s] < weighted_score[d]
                               THEN weighted_score[d] - hop_attenuation ELSE score[s]]_vars

\* The loop's round count for the configured max_iterations.
Rounds == IF max_iterations > 0 THEN max_iterations ELSE 0

\* C3 - Round count: a propagation pass runs only after the degree pass and
\* the label initialisation and only while iteration < max_iterations; at
\* the end exactly max_iterations rounds (none for max_iterations <= 0) were
\* run and cd_graph is the graph with its labels; with max_iterations = 0
\* every label is the vertex's key.
C3_RoundCount ==
    /\ pc \in {"loop", "propagate", "done"} => iteration \in 0..Rounds
    /\ pc = "propagate" =>
         /\ iteration < max_iterations
         /\ DOMAIN label = Vertices(graph)
         /\ \A v \in Vertices(graph) : edges[v] = IncidentCount(DOMAIN graph, v)
    /\ pc = "done" =>
         /\ iteration = Rounds
         /\ cd_graph = <<[edge_list |-> graph, label |-> label]>>
         /\ max_iterations = 0 => \A v \in Vertices(graph) : label[v] = v

\* A run of two rounds has ended.
C3_Witness ==
    pc = "done" /\ max_iterations = 2 /\ iteration = 2 /\ Len(cd_graph) = 1

\* A complete command line of either mode.
Complete == (argv[1] = "true" /\ Len(argv) = 9) \/ (argv[1] # "true" /\ Len(argv) = 7)

\* The arguments at their documented positions:
\* <use_hadoop> <graph_file> <directed> <edge_based> <node_preference>
\* <hop_attenuation> <max_iterations>, with <virtual_cores> <heap_size>
\* after <use_hadoop> when it is "true".
Shift == IF argv[1] = "true" THEN 2 ELSE 0
DirectedArg == argv[3 + Shift]
EdgeBasedArg == argv[4 + Shift]
NodePreferenceArg == argv[5 + Shift]
HopAttenuationArg == argv[6 + Shift]
MaxIterationsArg == argv[7 + Shift]

\* C4 - Mode rejection: in both modes a complete invocation whose
\* <edge_based> is not "true" ends with exit status 2, and no graph is
\* loaded and no job is submitted (a Hadoop environment that cannot be
\* created, HADOOP_HOME not being set, is left aside).
C4_ModeRejection ==
    (pc \notin {"start", "TypeError"} /\ Complete /\ EdgeBasedArg # "true") =>
        /\ pc = "exit_unsupported"
        /\ ExitStatus(pc) = 2
        /\ graph = <<>> /\ ~submitted /\ cd_graph = <<>>

\* C5 - Strict-comparison boundary: with node_preference = 0 every
\* weighted_score and every score is 1.0 throughout every pass, no test
\* fires, and every label is the vertex's own key after any number of rounds.
C5_StrictBoundary ==
    (AfterDegreePass /\ node_preference = 0) =>
        /\ \A v \in Vertices(graph) : label[v] = v
        /\ iteration > 0 \/ pc = "propagate" =>
             \A v \in Vertices(graph) : score[v] = One /\ weighted_score[v] = One

\* The example: undirected {(1,2),(2,3)}, node_preference 0, hop_attenuation
\* 0.1, one round, ended.
C5_Witness ==
    /\ pc = "done" /\ graph_data = ExampleFile /\ ~directed /\ node_preference = 0
    /\ hop_attenuation = 1 /\ max_iterations = 1 /\ iteration = 1
    /\ label = <<1, 2, 3>>

VisitedNeighbours(v) ==
    { graph[i][1] : i \in { j \in Visited : graph[j][2] = v } }
      \cup { graph[i][2] : i \in { j \in Visited : graph[j][1] = v } }

\* C7 - Monotonic decay: a score changed by a visit is at most the
\* weighted_score of the other endpoint minus hop_attenuation; and with
\* hop_attenuation = 0 no visit lowers a score, so that during and at the
\* end of a pass every score is at least the 1.0 the pass started from.
C7_MonotonicDecay ==
    [][PropagateVisit =>
        \A v \in Vertices(graph) :
            /\ score'[v] # score[v] =>
                 \E u \in VisitedNeighbours(v) :
                     score'[v] <= weighted_score[u] - hop_attenuation
            /\ hop_attenuation = 0 => score'[v] >= score[v] /\ score[v] >= One]_vars

\* With hop_attenuation = 0 a pass has raised a score and ended.
C7_Witness ==
    /\ pc = "loop" /\ iteration > 0 /\ hop_attenuation = 0
    /\ \E v \in Vertices(graph) : score[v] > One

\* C8 - Hadoop-mode argument mapping: a complete use_hadoop invocation with
\* <edge_based> "true" passes the argument and mode checks and runs with
\* directed, edge_based, node_preference, hop_attenuation and max_iterations
\* each the value at its documented position.
C8_HadoopArgumentMapping ==
    (pc # "start" /\ Complete /\ argv[1] = "true" /\ EdgeBasedArg = "true") =>
        /\ pc \notin Exited \ {"done"}
        /\ use_hadoop
        /\ directed = (DirectedArg = "true")
        /\ edge_based
        /\ node_preference = ParseFloat(NodePreferenceArg)
        /\ hop_attenuation = ParseFloat(HopAttenuationArg)
        /\ max_iterations = ParseInt(MaxIterationsArg)

RECURSIVE Component(_)
\* The vertices connected to those of S by edges taken in either direction.
Component(S) ==
    LET T == S \cup { v \in Vertices(graph) :
                        \E i \in DOMAIN graph :
                            \/ graph[i][1] = v /\ graph[i][2] \in S
                            \/ graph[i][2] = v /\ graph[i][1] \in S }
    IN  IF T = S THEN S ELSE Component(T)

\* C10 - Label validity: from the label initialisation on, through every
\* pass and in the output, the label of every vertex is the key of a vertex
\* of its own weakly connected component, and the vertex table (the domain
\* of every column) and the edge list are those of the loaded graph.
C10_LabelValidity ==
    /\ AfterDegreePass =>
         /\ DOMAIN label = Vertices(graph) /\ DOMAIN edges = Vertices(graph)
         /\ \A v \in Vertices(graph) : label[v] \in Component({v})
    /\ pc = "propagate" =>
         DOMAIN score = Vertices(graph) /\ DOMAIN weighted_score = Vertices(graph)
    /\ pc = "done" =>
         /\ cd_graph[1].edge_list = graph
         /\ DOMAIN cd_graph[1].label = Vertices(graph)
         /\ \A v \in Vertices(graph) : cd_graph[1].label[v] \in Component({v})

\* A graph of two components has been through a pass that moved a label.
C10_Witness ==
    /\ pc = "done"
    /\ \E v \in Vertices(graph) : Component({v}) # Vertices(graph)
    /\ \E v \in Vertices(graph) : label[v] # v
=============================================================================
